---------------------------- MODULE Spec2Model ----------------------------
(***************************************************************************)
(* Model of the obstacles-depth vision service (package obstaclesdepth).   *)
(*                                                                         *)
(* One service object (obsDepth) is built by registerObstaclesDepth and is *)
(* then called by concurrent callers.  The service object's fields are     *)
(* svc (clusteringConf, defaultCamera, deps) and the field o.intrinsics,   *)
(* which buildObsDepth writes and obsDepthWithIntrinsics reads.            *)
(* Each caller is a goroutine whose position and locals are inv.        *)
(***************************************************************************)
EXTENDS Integers, Sequences, FiniteSets, TLC

VARIABLES
    svc,         \* the obsDepth object returned by registerObstaclesDepth
    reg,         \* the last registerObstaclesDepth call: its config and error
    intrinsics,  \* the field o.intrinsics of the service object
    inv          \* the tracked caller: position, arguments, locals, return value

vars == <<svc, reg, intrinsics, inv>>

-----------------------------------------------------------------------------
(* Bounds of the model *)

\* longest depth map (number of cells) a single caller can be handed
MaxLen == 3
\* longest depth map handed out while two callers run concurrently
MaxLenConc == 1
\* largest depth reading
MaxDepth == 2

-----------------------------------------------------------------------------
(* The environment: the cameras in the dependency set *)

NilPtr == "nil"
NoCam == "nocam"
NoErr == "nil"

\* resource.Dependencies: the cameras a name can be resolved to
Cameras == {"calA", "calB", "bare", "badFx"}
\* camera names a caller or a configuration can give
Names == Cameras \cup {"", "ghost"}

\* props.IntrinsicParams of each camera: a pointer, nil for a camera
\* that reports no intrinsic parameters
IntrinsicParams(c) ==
    CASE c = "calA" -> "intrA"
      [] c = "calB" -> "intrB"
      [] c = "badFx" -> "intrBad"
      [] OTHER -> NilPtr

\* focal lengths behind each intrinsics pointer
Fx(k) == CASE k = "intrA" -> 1 [] k = "intrB" -> 2 [] OTHER -> 0
Fy(k) == CASE k = "intrA" -> 1 [] k = "intrB" -> 2 [] k = "intrBad" -> 1 [] OTHER -> 0

Depths == 0 .. MaxDepth

SeqsUpTo(n) == UNION {[1 .. k -> Depths] : k \in 0 .. n}
Frames == SeqsUpTo(MaxLen)
ConcFrames == SeqsUpTo(MaxLenConc)

-----------------------------------------------------------------------------
(* Errors *)

errUnimplemented == "obstacles depth service does not implement this method"
errNilConfig == "config for obstacles_depth cannot be nil"
errBuildingConfig == "error building clustering config for obstacles_depth"
errNoCameraFound == "could not find camera"
errNotFound == "resource not found"
errNoCamera == "no camera specified"
errGetImage == "could not get image"
errConvert == "could not convert image to depth map"
errNoInfo == "could not get info from depth map"
errNoIntrinsics == "tried to build obstacles depth with intrinsics but no instrinsics found"
errDecode == "image decode error"
errClustering == "clustering error"


-----------------------------------------------------------------------------
(* Pure helpers *)

\* camera.FromDependencies(deps, name)
FromDependencies(name) ==
    IF name \in Cameras THEN [cam |-> name, err |-> NoErr]
    ELSE [cam |-> NoCam, err |-> errNotFound]

\* ResolveCamera with its first two branches swapped: the default camera wins
ResolveCameraDefaultFirst(cameraName, defaultCamera) ==
    IF defaultCamera # NoCam THEN [cam |-> defaultCamera, err |-> NoErr]
    ELSE IF cameraName # "" THEN FromDependencies(cameraName)
    ELSE [cam |-> NoCam, err |-> errNoCamera]

\* the camera selection at the head of GetObjectPointClouds and
\* CaptureAllFromCamera: name, else the default camera, else an error
ResolveCamera(cameraName, defaultCamera) ==
    IF cameraName # "" THEN FromDependencies(cameraName)
    ELSE IF defaultCamera # NoCam THEN [cam |-> defaultCamera, err |-> NoErr]
    ELSE [cam |-> NoCam, err |-> errNoCamera]

\* SelectPath without its check of the error of src.Properties
SelectPathIgnoringPropsErr(propsOk, ip) ==
    IF ip = NilPtr THEN "noIntr" ELSE "withIntr"

\* the branch buildObsDepth takes, from the outcome of src.Properties
SelectPath(propsOk, ip) ==
    IF ~propsOk THEN "noIntr"
    ELSE IF ip = NilPtr THEN "noIntr"
    ELSE "withIntr"

\* insertion of x into an ascending sequence
RECURSIVE Insert(_, _)
Insert(x, s) ==
    IF s = <<>> THEN <<x>>
    ELSE IF x <= Head(s) THEN <<x>> \o s
    ELSE <<Head(s)>> \o Insert(x, Tail(s))

\* sort.Slice(depData, less) with less = (depData[i] < depData[j])
RECURSIVE SortSlice(_)
SortSlice(s) == IF s = <<>> THEN <<>> ELSE Insert(Head(s), SortSlice(Tail(s)))

\* med := int(0.5 * float64(len(depData))), as a 1-based index
MedIndex(n) == (n \div 2) + 1

\* spatialmath.NewPoint(r3.Vector{X: 0, Y: 0, Z: z}, "") in a vis.Object
PointObject(z) == [geom |-> "point", x |-> 0, y |-> 0, z |-> z, intr |-> NilPtr, data |-> <<>>]

\* the objects ApplyERCCLToPointCloud derives from
\* depthadapter.ToPointCloud(dm, o.intrinsics): determined by the depth map
\* and by the intrinsics the projection used
ClusterObjects(dm, k) == [geom |-> "clusters", x |-> 0, y |-> 0, z |-> 0, intr |-> k, data |-> dm]

-----------------------------------------------------------------------------
(* State *)

\* the detection and classification methods
Unimplemented == {"DetectionsFromCamera", "Detections",
                  "ClassificationsFromCamera", "Classifications"}

NoOpts == [ReturnImage |-> FALSE, ReturnObject |-> FALSE,
           ReturnDetections |-> FALSE, ReturnClassifications |-> FALSE]
Opts == [ReturnImage : BOOLEAN, ReturnObject : BOOLEAN,
         ReturnDetections : BOOLEAN, ReturnClassifications : BOOLEAN]

NoRet == [set |-> FALSE, objs |-> <<>>, err |-> NoErr]
Ret(objs, err) == [set |-> TRUE, objs |-> objs, err |-> err]

NoCap == [set |-> FALSE, image |-> FALSE, objs |-> <<>>,
          detections |-> <<>>, classifications |-> <<>>, err |-> NoErr]

NoProps == [set |-> FALSE, ClassificationSupported |-> FALSE,
            DetectionSupported |-> FALSE, ObjectPCDsSupported |-> FALSE]

IdleInv ==
    [pc |-> "idle", op |-> "none", name |-> "", opts |-> NoOpts,
     cam |-> NoCam, props |-> "none", path |-> "none", steps |-> <<>>,
     fetches |-> 0, fetchFailed |-> FALSE, hasDm |-> FALSE,
     fetched |-> <<>>, dm |-> <<>>, used |-> NilPtr, queried |-> {},
     ret |-> NoRet, cap |-> NoCap, properties |-> NoProps]

NoSvc == [built |-> FALSE, clusteringConf |-> "none", defaultCamera |-> NoCam]
NilConf == [isNil |-> TRUE, checkValid |-> FALSE, DefaultCamera |-> ""]
Confs == {NilConf} \cup
         [isNil : {FALSE}, checkValid : BOOLEAN, DefaultCamera : Names]

\* the shape of the state: the obsDepth object (svc, intrinsics), the last
\* construction (reg) and the tracked caller (inv)
TypeOK ==
    /\ svc \in [built : BOOLEAN, clusteringConf : {"none", "checked"},
                defaultCamera : Cameras \cup {NoCam}]
    /\ reg.conf \in Confs /\ reg.called \in BOOLEAN
    /\ intrinsics \in {NilPtr} \cup {IntrinsicParams(c) : c \in Cameras}
    /\ inv.pc \in {"idle", "build", "noIntr", "withIntr", "project",
                   "capCall", "capRet", "done"}
    /\ inv.op \in {"none", "gopc", "capture", "GetProperties"} \cup Unimplemented
    /\ inv.name \in Names /\ inv.opts \in Opts
    /\ inv.cam \in Cameras \cup {NoCam}
    /\ inv.fetched \in Frames /\ inv.dm \in Frames
    /\ inv.used \in {NilPtr} \cup {IntrinsicParams(c) : c \in Cameras}
    /\ inv.queried \subseteq Cameras

Init ==
    /\ svc = NoSvc
    /\ reg = [conf |-> NilConf, err |-> NoErr, called |-> FALSE]
    /\ intrinsics = NilPtr
    /\ inv = IdleInv

-----------------------------------------------------------------------------
(* Construction *)

\* registerObstaclesDepth(ctx, name, conf, deps, logger).  conf.checkValid is
\* the outcome of cfg.CheckValid() on the clustering config built from conf.
registerObstaclesDepth(conf) ==
    /\ ~svc.built
    /\ LET found == FromDependencies(conf.DefaultCamera)
           err == IF conf.isNil THEN errNilConfig
                  ELSE IF ~conf.checkValid THEN errBuildingConfig
                  ELSE IF conf.DefaultCamera # "" /\ found.err # NoErr
                       THEN errNoCameraFound
                  ELSE NoErr
           defaultCam == IF conf.DefaultCamera # "" THEN found.cam ELSE NoCam
       IN /\ reg' = [conf |-> conf, err |-> err, called |-> TRUE]
          /\ svc' = IF err = NoErr
                    THEN [built |-> TRUE, clusteringConf |-> "checked",
                          defaultCamera |-> defaultCam]
                    ELSE svc
    /\ UNCHANGED <<intrinsics, inv>>

-----------------------------------------------------------------------------
(* GetObjectPointClouds and the functions it calls *)

\* where a finished GetObjectPointClouds returns to
AfterGopc == IF inv.op = "capture" THEN "capRet" ELSE "done"

\* GetObjectPointClouds up to the call of the segmenter: called by a client
\* (pc = idle) or by CaptureAllFromCamera with its own cameraName
GetObjectPointClouds(cameraName) ==
    /\ svc.built
    /\ \/ inv.pc = "idle"
       \/ inv.pc = "capCall" /\ cameraName = inv.name
    /\ LET r == ResolveCamera(cameraName, svc.defaultCamera)
           op == IF inv.pc = "idle" THEN "gopc" ELSE inv.op
       IN inv' =
             IF r.err # NoErr
             THEN [inv EXCEPT !.op = op, !.name = cameraName,
                            !.ret = Ret(<<>>, r.err),
                            !.pc = IF op = "capture" THEN "capRet" ELSE "done"]
             ELSE [inv EXCEPT !.op = op, !.name = cameraName, !.cam = r.cam,
                            !.pc = "build"]
    /\ UNCHANGED <<svc, reg, intrinsics>>

\* the closure buildObsDepth returns, up to its call of one of the two
\* estimators; propsOk is whether src.Properties succeeded
buildObsDepth(propsOk) ==
    /\ inv.pc = "build"
    /\ LET ip == IntrinsicParams(inv.cam)
           path == SelectPath(propsOk, ip)
       IN /\ inv' =
                [inv EXCEPT !.props = IF propsOk THEN "ok" ELSE "fail",
                          !.steps = Append(@, "props"),
                          !.queried = @ \cup {inv.cam},
                          !.path = path, !.pc = path]
          /\ intrinsics' = IF path = "withIntr" THEN ip ELSE intrinsics
    /\ UNCHANGED <<svc, reg>>

\* obsDepthNoIntrinsics: out is the outcome of fetching and converting the
\* image, f the depth map's data
obsDepthNoIntrinsics(out, f) ==
    /\ inv.pc = "noIntr"
    /\ LET depData == SortSlice(f)
           med == MedIndex(Len(f))
           fetchedMe == [inv EXCEPT !.steps = Append(@, "fetch"),
                                       !.fetches = @ + 1,
                                       !.queried = @ \cup {inv.cam},
                                       !.pc = AfterGopc]
       IN inv' =
             IF out = "fetchErr"
             THEN [fetchedMe EXCEPT !.fetchFailed = TRUE,
                                    !.ret = Ret(<<>>, errGetImage)]
             ELSE IF out = "convertErr"
             THEN [fetchedMe EXCEPT !.fetchFailed = TRUE,
                                    !.ret = Ret(<<>>, errConvert)]
             ELSE IF Len(f) = 0
             THEN [fetchedMe EXCEPT !.hasDm = TRUE, !.fetched = f, !.dm = f,
                                    !.ret = Ret(<<>>, errNoInfo)]
             ELSE [fetchedMe EXCEPT !.hasDm = TRUE, !.fetched = f,
                                    !.dm = depData,
                                    !.steps = Append(@, "median"),
                                    !.ret = Ret(<<PointObject(depData[med])>>, NoErr)]
    /\ UNCHANGED <<svc, reg, intrinsics>>

\* obsDepthWithIntrinsics without the return after a failed fetch: it goes on
\* to the projection with an empty depth map
obsDepthWithIntrinsicsNoReturn(out, f) ==
    /\ inv.pc = "withIntr"
    /\ intrinsics # NilPtr
    /\ inv' = [inv EXCEPT !.steps = Append(@, "fetch"),
                          !.fetches = @ + 1,
                          !.queried = @ \cup {inv.cam},
                          !.fetchFailed = (out # "ok"),
                          !.hasDm = TRUE,
                          !.fetched = IF out = "ok" THEN f ELSE <<>>,
                          !.dm = IF out = "ok" THEN f ELSE <<>>,
                          !.pc = "project"]
    /\ UNCHANGED <<svc, reg, intrinsics>>

\* obsDepthWithIntrinsics up to the conversion to a depth map
obsDepthWithIntrinsics(out, f) ==
    /\ inv.pc = "withIntr"
    /\ LET fetchedMe == [inv EXCEPT !.steps = Append(@, "fetch"),
                                       !.fetches = @ + 1,
                                       !.queried = @ \cup {inv.cam}]
       IN inv' =
             IF intrinsics = NilPtr
             THEN [inv EXCEPT !.ret = Ret(<<>>, errNoIntrinsics),
                            !.pc = AfterGopc]
             ELSE IF out = "fetchErr"
             THEN [fetchedMe EXCEPT !.fetchFailed = TRUE,
                                    !.ret = Ret(<<>>, errGetImage),
                                    !.pc = AfterGopc]
             ELSE IF out = "convertErr"
             THEN [fetchedMe EXCEPT !.fetchFailed = TRUE,
                                    !.ret = Ret(<<>>, errDecode),
                                    !.pc = AfterGopc]
             ELSE [fetchedMe EXCEPT !.hasDm = TRUE, !.fetched = f, !.dm = f,
                                    !.pc = "project"]
    /\ UNCHANGED <<svc, reg, intrinsics>>

\* the last two lines of obsDepthWithIntrinsics: the projection with
\* o.intrinsics and the clustering; clusterOk is the clustering's outcome
projectAndCluster(clusterOk) ==
    /\ inv.pc = "project"
    /\ inv' =
          [inv EXCEPT !.used = intrinsics,
                    !.steps = @ \o <<"project", "segment">>,
                    !.ret = IF clusterOk
                            THEN Ret(<<ClusterObjects(inv.dm, intrinsics)>>, NoErr)
                            ELSE Ret(<<>>, errClustering),
                    !.pc = AfterGopc]
    /\ UNCHANGED <<svc, reg, intrinsics>>

-----------------------------------------------------------------------------
(* CaptureAllFromCamera *)

\* CaptureAllFromCamera up to its call of GetObjectPointClouds: the camera
\* selection and the optional image; imgOk is the outcome of decoding the image
CaptureAllFromCamera(cameraName, captureOptions, imgOk) ==
    /\ svc.built
    /\ inv.pc = "idle"
    /\ LET r == ResolveCamera(cameraName, svc.defaultCamera)
           me == [inv EXCEPT !.op = "capture", !.name = cameraName,
                                !.opts = captureOptions]
       IN inv' =
             IF r.err # NoErr
             THEN [me EXCEPT !.cap = [NoCap EXCEPT !.set = TRUE, !.err = r.err],
                             !.pc = "done"]
             ELSE IF captureOptions.ReturnImage /\ ~imgOk
             THEN [me EXCEPT !.cam = r.cam, !.queried = @ \cup {r.cam},
                             !.cap = [NoCap EXCEPT !.set = TRUE, !.err = errDecode],
                             !.pc = "done"]
             ELSE [me EXCEPT !.cam = r.cam,
                             !.queried = IF captureOptions.ReturnImage
                                         THEN @ \cup {r.cam} ELSE @,
                             !.cap = [NoCap EXCEPT !.image = captureOptions.ReturnImage],
                             !.pc = IF captureOptions.ReturnObject
                                    THEN "capCall" ELSE "capRet"]
    /\ UNCHANGED <<svc, reg, intrinsics>>

\* the rest of CaptureAllFromCamera: the objects of GetObjectPointClouds, if
\* asked for, then the detections and classifications of the result
CaptureAllReturn ==
    /\ inv.pc = "capRet"
    /\ inv' =
          IF inv.opts.ReturnObject /\ inv.ret.err # NoErr
          THEN [inv EXCEPT !.cap = [NoCap EXCEPT !.set = TRUE, !.err = inv.ret.err],
                         !.pc = "done"]
          ELSE [inv EXCEPT !.cap = [@ EXCEPT !.set = TRUE,
                                           !.objs = inv.ret.objs,
                                           !.detections = <<>>,
                                           !.classifications = <<>>,
                                           !.err = NoErr],
                         !.pc = "done"]
    /\ UNCHANGED <<svc, reg, intrinsics>>

-----------------------------------------------------------------------------
(* The remaining methods of the service *)

\* DetectionsFromCamera, Detections, ClassificationsFromCamera,
\* Classifications: return nil, errUnimplemented
UnimplementedMethod(m) ==
    /\ svc.built
    /\ inv.pc = "idle"
    /\ inv' =
          [inv EXCEPT !.op = m, !.ret = Ret(<<>>, errUnimplemented), !.pc = "done"]
    /\ UNCHANGED <<svc, reg, intrinsics>>

\* GetProperties
GetProperties ==
    /\ svc.built
    /\ inv.pc = "idle"
    /\ inv' =
          [inv EXCEPT !.op = "GetProperties",
                    !.properties = [set |-> TRUE,
                                    ClassificationSupported |-> FALSE,
                                    DetectionSupported |-> FALSE,
                                    ObjectPCDsSupported |-> TRUE],
                    !.pc = "done"]
    /\ UNCHANGED <<svc, reg, intrinsics>>

\* the caller takes the return value; its goroutine is free for the next call
Return ==
    /\ inv.pc = "done"
    /\ inv' = IdleInv
    /\ UNCHANGED <<svc, reg, intrinsics>>

-----------------------------------------------------------------------------
(* A second, concurrent call of GetObjectPointClouds on the same service   *)
(* object.  The camera selection reads only fields that never change after *)
(* construction, and nothing the call does after buildObsDepth writes a    *)
(* field of the service object, so the call is followed from its entry to  *)
(* its assignment of o.intrinsics, as one step.                            *)

ConcurrentGetObjectPointClouds(cameraName, propsOk) ==
    /\ svc.built
    /\ LET r == ResolveCamera(cameraName, svc.defaultCamera)
           ip == IntrinsicParams(r.cam)
       IN /\ r.err = NoErr
          /\ intrinsics' = IF SelectPath(propsOk, ip) = "withIntr"
                           THEN ip ELSE intrinsics
    /\ UNCHANGED <<svc, reg, inv>>

-----------------------------------------------------------------------------
(* Specifications *)

FetchOutcomes == {"ok", "fetchErr", "convertErr"}

\* one step of the tracked caller, handed depth maps from the set F
Step(F) ==
    \/ \E n \in Names : GetObjectPointClouds(n)
    \/ \E ok \in BOOLEAN : buildObsDepth(ok)
    \/ \E out \in FetchOutcomes, f \in F : obsDepthNoIntrinsics(out, f)
    \/ \E out \in FetchOutcomes, f \in F : obsDepthWithIntrinsics(out, f)
    \/ \E ok \in BOOLEAN : projectAndCluster(ok)
    \/ \E n \in Names, o \in Opts, ok \in BOOLEAN : CaptureAllFromCamera(n, o, ok)
    \/ CaptureAllReturn
    \/ \E m \in Unimplemented : UnimplementedMethod(m)
    \/ GetProperties
    \/ Return

Construct == \E c \in Confs : registerObstaclesDepth(c)

\* two concurrent callers of one service object
Next ==
    \/ Construct
    \/ Step(ConcFrames)
    \/ \E n \in Names, ok \in BOOLEAN : ConcurrentGetObjectPointClouds(n, ok)

Spec == Init /\ [][Next]_vars

\* a single caller, handed depth maps of up to MaxLen cells
NextSeq ==
    \/ Construct
    \/ Step(Frames)

SpecSeq == Init /\ [][NextSeq]_vars


-----------------------------------------------------------------------------
(* Properties *)

Range(s) == {s[i] : i \in 1 .. Len(s)}
IsPrefix(s, t) == Len(s) <= Len(t) /\ SubSeq(t, 1, Len(s)) = s

\* the valid (non-zero) readings of a depth map, in cell order
Valid(s) == SelectSeq(s, LAMBDA d : d # 0)

CalibratedSteps == <<"props", "fetch", "project", "segment">>
FallbackSteps == <<"props", "fetch", "median">>

\* the camera of the tracked call reported intrinsics
ReportsIntrinsics == inv.props = "ok" /\ IntrinsicParams(inv.cam) # NilPtr

(* C1: in every GetObjectPointClouds call on a resolved camera, if the     *)
(* camera's properties report intrinsics the calibrated path runs (fetch,  *)
(* then projection, then segmentation and clustering) and the fallback     *)
(* estimator does not; if the properties call fails or reports no          *)
(* intrinsics the fallback estimator runs and the calibrated path does     *)
(* not, and no error about missing intrinsics is returned.                 *)
C1_PathSelection ==
    inv.props # "none" =>
        /\ ReportsIntrinsics =>
              /\ inv.path = "withIntr"
              /\ IsPrefix(inv.steps, CalibratedSteps)
              /\ "median" \notin Range(inv.steps)
              /\ inv.ret.err # errNoIntrinsics
              /\ (inv.ret.set /\ inv.ret.err = NoErr) => inv.steps = CalibratedSteps
        /\ ~ReportsIntrinsics =>
              /\ inv.path = "noIntr"
              /\ IsPrefix(inv.steps, FallbackSteps)
              /\ "project" \notin Range(inv.steps)
              /\ "segment" \notin Range(inv.steps)
              /\ inv.ret.err \in {NoErr, errGetImage, errConvert, errNoInfo}
              /\ (inv.ret.set /\ inv.ret.err = NoErr) => inv.steps = FallbackSteps

\* a call on a camera whose Properties call failed has returned the
\* fallback estimator's point
C1_Witness ==
    /\ inv.pc = "done" /\ inv.op = "gopc"
    /\ inv.props = "fail" /\ IntrinsicParams(inv.cam) # NilPtr
    /\ inv.ret.err = NoErr /\ Len(inv.ret.objs) = 1
    /\ inv.steps = FallbackSteps

-----------------------------------------------------------------------------

\* the fallback estimator has returned for a depth map it was handed
FallbackReturned == inv.ret.set /\ inv.path = "noIntr" /\ inv.hasDm

\* the median the fallback estimator is described to return: the element at
\* index floor(0.5 * count) of the ascending valid readings
MedianOfValid(s) == SortSlice(Valid(s))[MedIndex(Len(Valid(s)))]

(* C2: on the fallback path, for every depth map with at least one valid   *)
(* reading, the result is exactly one obstacle at (0, 0, m), m being the   *)
(* element at index floor(0.5 * count) of the ascending valid (non-zero)   *)
(* readings and count the number of valid readings.                        *)
C2_FallbackMedianOfValid ==
    (FallbackReturned /\ Valid(inv.fetched) # <<>>) =>
        /\ inv.ret.err = NoErr
        /\ inv.ret.objs = <<PointObject(MedianOfValid(inv.fetched))>>

(* C3: a call's projection uses the intrinsics reported by its own camera, *)
(* never those a concurrent call on another camera obtained.               *)
C3_ProjectionUsesOwnIntrinsics ==
    "project" \in Range(inv.steps) => inv.used = IntrinsicParams(inv.cam)

(* C4: on the fallback path a depth map with no valid reading (empty, or   *)
(* every cell zero) makes the call fail with the empty-depth-data error    *)
(* and return no obstacle; no obstacle at (0, 0, 0) is ever returned.      *)
C4_NoValidReadingsFails ==
    /\ (FallbackReturned /\ Valid(inv.fetched) = <<>>) =>
          /\ inv.ret.err = errNoInfo
          /\ inv.ret.objs = <<>>
    /\ (inv.ret.set /\ inv.path = "noIntr") =>
          PointObject(0) \notin Range(inv.ret.objs)

(* C6: every call that requests detections or classifications returns an   *)
(* error and never a successful result (CaptureAllFromCamera asked for     *)
(* detections or classifications included; any error is accepted here),    *)
(* the four detection and classification methods return the unimplemented  *)
(* error, and GetProperties reports object point clouds supported,         *)
(* detections and classifications not supported.                           *)
C6_DetectionsUnimplemented ==
    inv.pc = "done" =>
        /\ inv.op \in Unimplemented =>
              inv.ret.err = errUnimplemented /\ inv.ret.objs = <<>>
        /\ (/\ inv.op = "capture"
            /\ inv.opts.ReturnDetections \/ inv.opts.ReturnClassifications) =>
              inv.cap.err # NoErr
        /\ inv.op = "GetProperties" =>
              /\ inv.properties.ObjectPCDsSupported
              /\ ~inv.properties.DetectionSupported
              /\ ~inv.properties.ClassificationSupported

\* the error the call of the tracked caller has returned, and its objects
CallErr == IF inv.op = "capture" THEN inv.cap.err ELSE inv.ret.err
CallObjs == IF inv.op = "capture" THEN inv.cap.objs ELSE inv.ret.objs

(* C7: in GetObjectPointClouds and CaptureAllFromCamera a non-empty camera *)
(* name is resolved through the dependencies and overrides the default; an *)
(* unknown name fails with the lookup error; an empty name uses the        *)
(* default camera; an empty name with no default camera fails with 'no     *)
(* camera specified'; in both failures no camera is queried and no         *)
(* obstacles are returned.  Construction fails if a configured camera_name *)
(* cannot be resolved.                                                     *)
C7_DepthSourceResolution ==
    /\ svc.built =>
          /\ reg.err = NoErr
          /\ reg.conf.DefaultCamera # "" =>
                /\ reg.conf.DefaultCamera \in Cameras
                /\ svc.defaultCamera = reg.conf.DefaultCamera
          /\ reg.conf.DefaultCamera = "" => svc.defaultCamera = NoCam
    /\ (reg.called /\ ~reg.conf.isNil /\ reg.conf.DefaultCamera \notin Cameras \cup {""}) =>
          ~svc.built /\ reg.err # NoErr
    /\ inv.op \in {"gopc", "capture"} =>
          /\ inv.queried \subseteq {inv.cam}
          /\ (inv.name # "" /\ inv.name \in Cameras) => inv.cam = inv.name
          /\ (inv.name # "" /\ inv.name \notin Cameras) =>
                /\ inv.pc = "done"
                /\ CallErr = errNotFound
                /\ CallObjs = <<>> /\ inv.queried = {} /\ inv.steps = <<>>
          /\ (inv.name = "" /\ svc.defaultCamera # NoCam) =>
                inv.cam = svc.defaultCamera
          /\ (inv.name = "" /\ svc.defaultCamera = NoCam) =>
                /\ inv.pc = "done"
                /\ CallErr = errNoCamera
                /\ CallObjs = <<>> /\ inv.queried = {} /\ inv.steps = <<>>

\* a call naming a camera other than the default one has queried the named
\* camera and returned objects
C7_Witness ==
    /\ inv.pc = "done" /\ inv.op = "gopc"
    /\ inv.name \in Cameras /\ svc.defaultCamera \in Cameras
    /\ inv.name # svc.defaultCamera
    /\ inv.queried = {inv.name} /\ inv.ret.err = NoErr

(* C8: on either path, if fetching the depth map fails the call ends with  *)
(* an error and no obstacles, nothing is projected, segmented, clustered   *)
(* or sorted for a median afterwards, and the fetch is not attempted       *)
(* again: a GetObjectPointClouds call fetches at most one depth map.       *)
C8_FetchFailureIsTerminal ==
    /\ inv.fetches <= 1
    /\ inv.fetchFailed =>
          /\ inv.pc \in {"done", "capRet"}
          /\ inv.ret.set /\ inv.ret.err # NoErr /\ inv.ret.objs = <<>>
          /\ Range(inv.steps) \cap {"project", "segment", "median"} = {}
          /\ ~inv.hasDm
          /\ (inv.pc = "done" /\ inv.op = "capture") =>
                inv.cap.err # NoErr /\ inv.cap.objs = <<>>

\* a calibrated-path call whose fetch failed has returned
C8_Witness ==
    /\ inv.pc = "done" /\ inv.path = "withIntr"
    /\ inv.fetchFailed /\ inv.fetches = 1

(* C9: intrinsics reported present but malformed (fx <= 0 or fy <= 0) are  *)
(* treated like absent intrinsics: the fallback estimator is selected, not *)
(* the calibrated path.                                                    *)
C9_MalformedIntrinsicsFallBack ==
    (/\ ReportsIntrinsics
     /\ Fx(IntrinsicParams(inv.cam)) <= 0 \/ Fy(IntrinsicParams(inv.cam)) <= 0) =>
        inv.path = "noIntr"

(* C10: a call never mutates its inputs: once GetObjectPointClouds has     *)
(* returned, on either path, the depth map holds the readings it was       *)
(* fetched with, in the same cell order.                                   *)
C10_DepthMapNotMutated ==
    (inv.ret.set /\ inv.hasDm) => inv.dm = inv.fetched

=============================================================================
